---------------------------- MODULE Spec2Model ----------------------------
(***************************************************************************)
(* The QuickPizzaBench plotting tools as one state machine.                *)
(*                                                                         *)
(* One behaviour is one invocation of one of the four scripts              *)
(*   plot_request_times, plot_request_times_smooth,                        *)
(*   plot_rps_cdf,       plot_rps_cdf_smooth                               *)
(* on one input file with one set of command-line arguments.  The actions  *)
(* are the consecutive blocks of the scripts: entry point, load, filter,   *)
(* preparation, statistics, smoothing, rendering.                          *)
(*                                                                         *)
(* Numbers.  Timestamps are integer ticks, TicksPerSec ticks to a second.  *)
(* Every computed real is an exact rational <<n, d>> in lowest terms with  *)
(* d > 0; NaN is <<0, 0>>.  Floating-point rounding is not modelled.       *)
(***************************************************************************)
EXTENDS Integers, Sequences, FiniteSets

(***************************************************************************)
(* Bounds of the model (not program constants).                            *)
(***************************************************************************)
TicksPerSec == 2
MaxTick == 3
MaxDur == 2
MaxSamples == 5
MaxStamps == 4
MaxWindow == 5
MaxFreq == 3
MaxCount == 7
MaxExtra == 1
MaxPoints == 5

(***************************************************************************)
(* Program constants.                                                      *)
(***************************************************************************)
DefaultWindow == 50
MinBucketCount == 3
PolyOrder == 3
FallbackWindow == 10
MinUniqueForCubic == 4
MinBins == 20
DefaultPoints == 500
DefaultFactorTenths == 5
MinFactorTenths == 1
MaxFactorTenths == 20

(***************************************************************************)
(* Exact rational arithmetic.                                              *)
(***************************************************************************)
Abs(n) == IF n < 0 THEN -n ELSE n

RECURSIVE GCD(_, _)
GCD(a, b) == IF b = 0 THEN a ELSE GCD(b, a % b)

NaN == <<0, 0>>

IsNaN(r) == r[2] = 0

Rat(n, d) ==
    IF d = 0 THEN NaN
    ELSE LET g == GCD(Abs(n), Abs(d))
             s == IF d < 0 THEN -1 ELSE 1
         IN  <<s * (n \div g), s * (d \div g)>>

RInt(n) == <<n, 1>>

RAdd(a, b) ==
    IF IsNaN(a) \/ IsNaN(b) THEN NaN
    ELSE LET g == GCD(a[2], b[2])
         IN  Rat(a[1] * (b[2] \div g) + b[1] * (a[2] \div g), (a[2] \div g) * b[2])

RNeg(a) == <<-a[1], a[2]>>

RSub(a, b) == RAdd(a, RNeg(b))

RMul(a, b) ==
    IF IsNaN(a) \/ IsNaN(b) THEN NaN
    ELSE LET g1 == GCD(Abs(a[1]), b[2])
             g2 == GCD(Abs(b[1]), a[2])
         IN  IF a[1] = 0 \/ b[1] = 0 THEN <<0, 1>>
             ELSE <<(a[1] \div g1) * (b[1] \div g2), (a[2] \div g2) * (b[2] \div g1)>>

RDiv(a, b) ==
    IF IsNaN(a) \/ IsNaN(b) \/ b[1] = 0 THEN NaN
    ELSE RMul(a, IF b[1] < 0 THEN <<-b[2], -b[1]>> ELSE <<b[2], b[1]>>)

\* Comparisons with NaN are false, as in IEEE arithmetic.
RLe(a, b) == ~IsNaN(a) /\ ~IsNaN(b) /\ RSub(a, b)[1] <= 0

RLt(a, b) == ~IsNaN(a) /\ ~IsNaN(b) /\ RSub(a, b)[1] < 0

\* int(x): truncation toward zero.
RTrunc(a) == IF a[1] >= 0 THEN a[1] \div a[2] ELSE -((-a[1]) \div a[2])

(***************************************************************************)
(* Sequences of integers.                                                  *)
(***************************************************************************)
RECURSIVE SeqSum(_)
SeqSum(s) == IF s = << >> THEN 0 ELSE Head(s) + SeqSum(Tail(s))

Range(s) == {s[i] : i \in DOMAIN s}

SetMin(S) == CHOOSE x \in S : \A y \in S : x <= y

SetMax(S) == CHOOSE x \in S : \A y \in S : y <= x

\* The same sequence, with every element evaluated once.
Tuple(f) == f \o << >>

Reverse(s) == [i \in 1..Len(s) |-> s[Len(s) + 1 - i]]

\* Ascending sort of a sequence of integers (np.sort, Series.quantile's sort).
RECURSIVE SortAsc(_)
SortAsc(s) ==
    IF s = << >> THEN << >>
    ELSE LET m == SetMin(Range(s))
         IN  SelectSeq(s, LAMBDA v : v = m) \o SortAsc(SelectSeq(s, LAMBDA v : v # m))


(***************************************************************************)
(* Input files.  A file is a flat table of (timestamp, metric_name,        *)
(* metric_value) rows.  A k6 run writes, for every request, one http_reqs  *)
(* row (value 1) and one http_req_duration row at the same timestamp.      *)
(* A request is <<timestamp in ticks, duration>>.                          *)
(***************************************************************************)
Row(t, m, v) == [timestamp |-> t, metric_name |-> m, metric_value |-> v]

K6Rows(reqs) ==
    Tuple([i \in 1..(2 * Len(reqs)) |->
              LET r == reqs[(i + 1) \div 2]
              IN  IF i % 2 = 1 THEN Row(r[1], "http_reqs", 1)
                               ELSE Row(r[1], "http_req_duration", r[2])])

\* A table of some other tool's metric: no row matches either target.
ForeignRows(reqs) ==
    Tuple([i \in 1..Len(reqs) |-> Row(reqs[i][1], "vus", reqs[i][2])])

File(rows) == [exists |-> TRUE, readable |-> TRUE, rows |-> rows]

MissingFile == [exists |-> FALSE, readable |-> FALSE, rows |-> << >>]

\* Present, but not a gzip stream / not a CSV with the three columns.
UnreadableFile == [exists |-> TRUE, readable |-> FALSE, rows |-> << >>]

\* One request per tick, any durations; the file lists the latest first.
DurationSeries ==
    UNION {{Reverse([i \in 1..n |-> <<i - 1, ds[i]>>]) : ds \in [1..n -> 1..MaxDur]}
           : n \in 0..MaxSamples}

\* Any timestamps in any file order; durations cycle through 1..MaxDur.
StampSeries ==
    UNION {{[i \in 1..n |-> <<ts[i], 1 + (i % MaxDur)>>] : ts \in [1..n -> 0..MaxTick]}
           : n \in 0..MaxStamps}

\* The requests of a run whose second k (from 0) holds counts[k+1] requests.
RECURSIVE RequestsOfCounts(_, _)
RequestsOfCounts(counts, sec) ==
    IF counts = << >> THEN << >>
    ELSE [i \in 1..Head(counts) |->
             <<sec * TicksPerSec + (i % TicksPerSec), 1 + (i % MaxDur)>>]
         \o RequestsOfCounts(Tail(counts), sec + 1)

\* Per-second count profiles: the seconds carry the counts of S, largest
\* first, count r (the smallest or the largest of S) on 1 + e seconds; the
\* other slots are seconds without any request.
ProfileCounts(S, r, e) ==
    [k \in 1..(MaxCount * (1 + MaxExtra)) |->
        LET v == MaxCount - ((k - 1) \div (1 + MaxExtra))
            j == (k - 1) % (1 + MaxExtra)
        IN  IF v \in S /\ (j = 0 \/ (v = r /\ j <= e)) THEN v ELSE 0]

CountProfiles ==
    {ProfileCounts(S, 0, 0) : S \in SUBSET (1..MaxCount)}
    \cup UNION {{ProfileCounts(S, r, e) : r \in {SetMin(S), SetMax(S)}, e \in 1..MaxExtra}
                : S \in (SUBSET (1..MaxCount)) \ {{}}}

ProfileSeries == {RequestsOfCounts(Tuple(c), 0) : c \in CountProfiles}

\* 50 requests of 10 ms then 50 of 20 ms, one per second, timestamps 0..99.
StepScenario ==
    Tuple([i \in 1..100 |-> <<(i - 1) * TicksPerSec, IF i <= 50 THEN 10 ELSE 20>>])

\* 100 requests of the same duration v: two per tick, or one per second.
ConstantDense(v) == Tuple([i \in 1..100 |-> <<(i - 1) \div 2, v>>])

ConstantSparse(v) == Tuple([i \in 1..100 |-> <<(i - 1) * TicksPerSec, v>>])

ConstantScenarios ==
    {ConstantDense(v) : v \in 1..MaxDur} \cup {ConstantSparse(v) : v \in 1..MaxDur}

\* The same values as per-second counts: 50 seconds of 10 requests, then 50
\* seconds of 20.
StepValues == Tuple([i \in 1..100 |-> IF i <= 50 THEN 10 ELSE 20])

StepCountScenario == RequestsOfCounts(StepValues, 0)

\* Nine seconds of 5 requests and one second of 15.
OutlierScenario ==
    RequestsOfCounts(<<5, 5, 5, 5, 5, 5, 5, 5, 5, 15>>, 0)

\* Eleven seconds of 1 to 3 requests: with --factor 1.9 the product
\* len(sorted_rps) * smoothing_factor is 20.9.
ElevenSecondScenario ==
    RequestsOfCounts(<<1, 2, 1, 2, 1, 2, 1, 2, 1, 2, 3>>, 0)

(***************************************************************************)
(* Command lines.                                                          *)
(***************************************************************************)
Tools == {"plot_request_times", "plot_request_times_smooth",
          "plot_rps_cdf", "plot_rps_cdf_smooth"}

LatencyTools == {"plot_request_times", "plot_request_times_smooth"}

RpsTools == {"plot_rps_cdf", "plot_rps_cdf_smooth"}

\* The tools whose main() wraps the work in try/except.
GuardedTools == Tools \ {"plot_rps_cdf"}

TargetMetric(t) == IF t \in LatencyTools THEN "http_req_duration" ELSE "http_reqs"

DefaultFactor == Rat(DefaultFactorTenths, 10)

Args(m, w, f, sf, np) ==
    [method |-> m, window_size |-> w, resample_freq |-> f,
     smoothing_factor |-> sf, num_points |-> np]

\* The scripts without options: the fields are never read.
NoArgs == Args("none", DefaultWindow, TicksPerSec, DefaultFactor, DefaultPoints)

LatencyArgs(m, w, f) == Args(m, w, f, DefaultFactor, DefaultPoints)

RpsArgs(m, sf, np) == Args(m, DefaultWindow, TicksPerSec, sf, np)

Windows == (1..MaxWindow) \cup {DefaultWindow}

Factors == {Rat(MinFactorTenths, 10), DefaultFactor, Rat(MaxFactorTenths, 10)}

WindowArgs ==
    {LatencyArgs(m, w, TicksPerSec) : m \in {"rolling", "savgol"}, w \in Windows}
    \cup {LatencyArgs("both", w, TicksPerSec) : w \in {MaxWindow \div 2, DefaultWindow}}

\* Each method of the latency tool with --window and --resample-freq left
\* at their defaults.
DefaultLatencyArgs ==
    {LatencyArgs(m, DefaultWindow, TicksPerSec) : m \in {"rolling", "resample", "savgol", "both"}}

ResampleArgs == {LatencyArgs("resample", DefaultWindow, f) : f \in 1..MaxFreq}

CurveArgs ==
    {RpsArgs("interpolate", DefaultFactor, np) : np \in 1..MaxPoints}
    \cup {RpsArgs("both", DefaultFactor, MaxPoints)}

FactorArgs == {RpsArgs(m, sf, DefaultPoints) : m \in {"gaussian", "binned"}, sf \in Factors}

ArgsOf(t) ==
    CASE t = "plot_request_times_smooth" -> WindowArgs \cup ResampleArgs
      [] t = "plot_rps_cdf_smooth" -> CurveArgs \cup FactorArgs
      [] OTHER -> {NoArgs}

DefaultArgsOf(t) ==
    CASE t = "plot_request_times_smooth" -> LatencyArgs("rolling", DefaultWindow, TicksPerSec)
      [] t = "plot_rps_cdf_smooth" -> RpsArgs("interpolate", DefaultFactor, DefaultPoints)
      [] OTHER -> NoArgs

(***************************************************************************)
(* State.                                                                  *)
(***************************************************************************)
VARIABLES
    tool,       \* which script runs
    file,       \* the input file (never written)
    args,       \* the parsed command line
    pc,         \* the block of the script about to run
    df,         \* the loaded table
    data,       \* http_duration / http_reqs: the filtered, prepared frame
    cdf,        \* rps, sorted_rps, cumulative, unique_rps, unique_cumulative
    stats,      \* p50, p95, p99, mean, max
    smooth,     \* the smoothed series and, for resample, its buckets
    image,      \* the saved figure
    printed,    \* what went to standard output, in order
    outcome     \* how the invocation ended

vars == <<tool, file, args, pc, df, data, cdf, stats, smooth, image, printed, outcome>>

NoStats == [p50 |-> NaN, p95 |-> NaN, p99 |-> NaN, mean |-> NaN, max |-> NaN]

NoCdf == [rps |-> << >>, sorted_rps |-> << >>, cumulative |-> << >>,
          unique_rps |-> << >>, unique_cumulative |-> << >>]

\* x, y: the plotted series; buckets: the rows of `resampled`.
NoSmooth == [x |-> << >>, y |-> << >>, buckets |-> << >>]

NoImage == [written |-> FALSE, x |-> << >>, y |-> << >>, lines |-> NoStats]

Msg(m) == [msg |-> m, stats |-> NoStats]

\* The state in which main() of tool t starts on file f with command line a.
Start(t, f, a) ==
    /\ tool = t
    /\ file = f
    /\ args = a
    /\ pc = "main"
    /\ df = << >>
    /\ data = << >>
    /\ cdf = NoCdf
    /\ stats = NoStats
    /\ smooth = NoSmooth
    /\ image = NoImage
    /\ printed = << >>
    /\ outcome = "running"

Init ==
    \* tables of another metric, every tool
    \/ \E t \in Tools, r \in DurationSeries :
          Start(t, File(ForeignRows(r)), DefaultArgsOf(t))
    \* latency series for the index-window methods and for the plain plot
    \/ \E r \in DurationSeries, a \in WindowArgs :
          Start("plot_request_times_smooth", File(K6Rows(r)), a)
    \/ \E r \in DurationSeries :
          Start("plot_request_times", File(K6Rows(r)), NoArgs)
    \* irregular timestamps for the time-bucket method
    \/ \E r \in StampSeries, a \in ResampleArgs :
          Start("plot_request_times_smooth", File(K6Rows(r)), a)
    \* per-second count profiles for the RPS tools
    \/ \E t \in RpsTools, r \in ProfileSeries : \E a \in ArgsOf(t) :
          Start(t, File(K6Rows(r)), a)
    \* the reference scenarios, default command lines
    \/ \E t \in LatencyTools : Start(t, File(K6Rows(StepScenario)), DefaultArgsOf(t))
    \/ \E r \in ConstantScenarios, a \in DefaultLatencyArgs :
          Start("plot_request_times_smooth", File(K6Rows(r)), a)
    \/ \E t \in RpsTools, r \in {OutlierScenario, StepCountScenario} :
          Start(t, File(K6Rows(r)), DefaultArgsOf(t))
    \/ \E r \in {OutlierScenario, StepCountScenario} :
          Start("plot_rps_cdf_smooth", File(K6Rows(r)),
                RpsArgs("binned", DefaultFactor, DefaultPoints))
    \/ Start("plot_rps_cdf_smooth", File(K6Rows(ElevenSecondScenario)),
             RpsArgs("binned", Rat(MaxFactorTenths - 1, 10), DefaultPoints))
    \* a path that does not exist, a file that cannot be parsed
    \/ \E t \in Tools, f \in {MissingFile, UnreadableFile} : Start(t, f, DefaultArgsOf(t))

(***************************************************************************)
(* Entry point, load, filter.                                              *)
(***************************************************************************)
\* An exception raised inside the work function: caught and reported by the
\* try/except of main() where there is one, a traceback otherwise.
Raised ==
    /\ pc' = "done"
    /\ IF tool \in GuardedTools
         THEN /\ printed' = Append(printed, Msg("Error"))
              /\ outcome' = "reported"
         ELSE /\ printed' = printed
              /\ outcome' = "uncaught"

Main ==
    /\ pc = "main"
    /\ IF tool \in GuardedTools /\ ~file.exists
         THEN /\ printed' = Append(printed, Msg("File not found"))
              /\ outcome' = "reported"
              /\ pc' = "done"
         ELSE /\ pc' = "load"
              /\ UNCHANGED <<printed, outcome>>
    /\ UNCHANGED <<tool, file, args, df, data, cdf, stats, smooth, image>>

Load ==
    /\ pc = "load"
    /\ IF file.exists /\ file.readable
         THEN /\ df' = file.rows
              /\ pc' = "filter"
              /\ printed' = IF tool = "plot_rps_cdf" THEN printed
                            ELSE Append(printed, Msg("Loading"))
              /\ outcome' = outcome
         ELSE /\ Raised
              /\ df' = df
    /\ UNCHANGED <<tool, file, args, data, cdf, stats, smooth, image>>

Matching(rows, name) == SelectSeq(rows, LAMBDA r : r.metric_name = name)

\* plot_rps_cdf has no emptiness check: it goes on with an empty frame.
ChecksEmpty(t) == t # "plot_rps_cdf"

Filter ==
    /\ pc = "filter"
    /\ data' = Matching(df, TargetMetric(tool))
    /\ IF ChecksEmpty(tool) /\ data' = << >>
         THEN /\ printed' = Append(printed, Msg("No data found"))
              /\ outcome' = "empty"
              /\ pc' = "done"
         ELSE /\ pc' = "prepare"
              /\ UNCHANGED <<printed, outcome>>
    /\ UNCHANGED <<tool, file, args, df, cdf, stats, smooth, image>>

(***************************************************************************)
(* Preparation of the latency frame: to_datetime, sort_values, relative    *)
(* time.                                                                   *)
(***************************************************************************)
\* The elements of a set of integers, ascending.
RECURSIVE SetToSeq(_)
SetToSeq(S) ==
    IF S = {} THEN << >>
    ELSE LET m == SetMin(S) IN <<m>> \o SetToSeq(S \ {m})

Perms(S) ==
    {p \in [1..Cardinality(S) -> S] : \A i, j \in DOMAIN p : i # j => p[i] # p[j]}

\* sort_values('timestamp') uses an unstable sort: rows with equal timestamps
\* come out in any order.  The orders of the index set I, earliest first
\* (tied rows that are all equal give the same frame in every order).
RECURSIVE TimeOrders(_, _)
TimeOrders(rows, I) ==
    IF I = {} THEN {<< >>}
    ELSE LET tmin == SetMin({rows[i].timestamp : i \in I})
             G == {i \in I : rows[i].timestamp = tmin}
             orders == IF Cardinality({rows[i] : i \in G}) = 1 THEN {SetToSeq(G)}
                       ELSE Perms(G)
         IN  {p \o q : p \in orders, q \in TimeOrders(rows, I \ G)}

SortValues(rows) == {[k \in DOMAIN o |-> rows[o[k]]] : o \in TimeOrders(rows, DOMAIN rows)}

Seconds(ticks) == Rat(ticks, TicksPerSec)

WithRelativeTime(rows) ==
    LET start_time == SetMin({rows[i].timestamp : i \in DOMAIN rows})
    IN  [i \in DOMAIN rows |->
            [timestamp |-> rows[i].timestamp,
             metric_value |-> rows[i].metric_value,
             relative_time |-> Seconds(rows[i].timestamp - start_time)]]

PrepareLatency ==
    /\ pc = "prepare"
    /\ tool \in LatencyTools
    /\ \E sorted \in SortValues(data) : data' = WithRelativeTime(sorted)
    /\ pc' = "stats"
    /\ UNCHANGED <<tool, file, args, df, cdf, stats, smooth, image, printed, outcome>>

(***************************************************************************)
(* Preparation of the RPS frame: floor to the second, count per second,    *)
(* sort the counts, raw CDF, deduplication.                                *)
(***************************************************************************)
\* dt.floor('s') of a timestamp in ticks, in whole seconds.
FloorSecond(t) == t \div TicksPerSec

\* The count per second with the empty seconds between the first and the
\* last kept as zeros.
GroupSizeZeroFilled(rows) ==
    IF rows = << >> THEN << >>
    ELSE LET floors == {FloorSecond(rows[i].timestamp) : i \in DOMAIN rows}
             secs == SetToSeq(SetMin(floors)..SetMax(floors))
         IN  [k \in DOMAIN secs |->
                 <<secs[k], Cardinality({i \in DOMAIN rows :
                                            FloorSecond(rows[i].timestamp) = secs[k]})>>]

\* groupby('second').size(): one <<second, count>> per second that occurs,
\* in ascending order of the second.
GroupSize(rows) ==
    LET secs == SetToSeq({FloorSecond(rows[i].timestamp) : i \in DOMAIN rows})
    IN  [k \in DOMAIN secs |->
            <<secs[k], Cardinality({i \in DOMAIN rows :
                                       FloorSecond(rows[i].timestamp) = secs[k]})>>]

\* np.arange(1, n + 1) / n
Cumulative(n) == [i \in 1..n |-> Rat(i, n)]

\* np.unique(sorted, return_index=True): the index of the first occurrence
\* of each distinct value.
UniqueIndices(sorted) ==
    SetToSeq({i \in DOMAIN sorted : i = 1 \/ sorted[i - 1] # sorted[i]})

RawCdf(rows) ==
    LET rps == GroupSize(rows)
        sorted_rps == SortAsc([k \in DOMAIN rps |-> rps[k][2]])
        cumulative == Cumulative(Len(sorted_rps))
    IN  [rps |-> rps, sorted_rps |-> sorted_rps, cumulative |-> cumulative,
         unique_rps |-> << >>, unique_cumulative |-> << >>]

Deduplicated(c) ==
    LET unique_indices == UniqueIndices(c.sorted_rps)
    IN  [c EXCEPT !.unique_rps = [k \in DOMAIN unique_indices |->
                                     c.sorted_rps[unique_indices[k]]],
                  !.unique_cumulative = [k \in DOMAIN unique_indices |->
                                            c.cumulative[unique_indices[k]]]]

PrepareRps ==
    /\ pc = "prepare"
    /\ tool \in RpsTools
    /\ cdf' = IF tool = "plot_rps_cdf_smooth" THEN Deduplicated(RawCdf(data))
              ELSE RawCdf(data)
    /\ pc' = IF tool = "plot_rps_cdf_smooth" THEN "stats" ELSE "render"
    /\ UNCHANGED <<tool, file, args, df, data, stats, smooth, image, printed, outcome>>

(***************************************************************************)
(* Statistics: linear-interpolation percentiles, mean, max of raw values.  *)
(***************************************************************************)
\* Quantile without the sort: the rank is taken in the order of the input.
QuantileUnsorted(values, q) ==
    LET n == Len(values)
        lo == (q * (n - 1)) \div 100 + 1
        hi == IF lo < n THEN lo + 1 ELSE n
        r == (q * (n - 1)) % 100
    IN  Rat(100 * values[lo] + r * (values[hi] - values[lo]), 100)

\* Quantile without the interpolation: the value at the rank rounded down.
QuantileLower(values, q) ==
    LET s == SortAsc(values)
    IN  RInt(s[(q * (Len(s) - 1)) \div 100 + 1])

\* Series.quantile(q/100) and np.percentile(., q): the value at rank
\* q (n - 1) / 100 of the sorted values, interpolated between neighbours.
Quantile(values, q) ==
    LET s == SortAsc(values)
        n == Len(s)
        lo == (q * (n - 1)) \div 100 + 1
        hi == IF lo < n THEN lo + 1 ELSE n
        r == (q * (n - 1)) % 100
    IN  Rat(100 * s[lo] + r * (s[hi] - s[lo]), 100)

Mean(values) == Rat(SeqSum(values), Len(values))

MaxOf(values) == RInt(SetMax(Range(values)))

MetricValues(rows) == [i \in DOMAIN rows |-> rows[i].metric_value]

\* plot_request_times_smooth: p95, p99, avg, max_val.
LatencyStats(values) ==
    [p50 |-> NaN, p95 |-> Quantile(values, 95), p99 |-> Quantile(values, 99),
     mean |-> Mean(values), max |-> MaxOf(values)]

\* plot_request_times: p95 and p99 only; mean and max are taken when printed.
PlainStats(values) ==
    [p50 |-> NaN, p95 |-> Quantile(values, 95), p99 |-> Quantile(values, 99),
     mean |-> NaN, max |-> NaN]

\* plot_rps_cdf_smooth: p50, p95, p99, mean_rps, max_rps.
RpsStats(values) ==
    [p50 |-> Quantile(values, 50), p95 |-> Quantile(values, 95),
     p99 |-> Quantile(values, 99), mean |-> Mean(values), max |-> MaxOf(values)]

Stats ==
    /\ pc = "stats"
    /\ stats' = CASE tool = "plot_request_times" -> PlainStats(MetricValues(data))
                  [] tool = "plot_request_times_smooth" -> LatencyStats(MetricValues(data))
                  [] OTHER -> RpsStats(cdf.sorted_rps)
    /\ pc' = IF tool = "plot_request_times" THEN "render" ELSE "smooth"
    /\ UNCHANGED <<tool, file, args, df, data, cdf, smooth, image, printed, outcome>>

(***************************************************************************)
(* Latency smoothing (plot_request_times_smooth).                          *)
(***************************************************************************)
RECURSIVE SumOver(_, _, _)
SumOver(values, a, b) == IF a > b THEN 0 ELSE values[a] + SumOver(values, a + 1, b)

\* The rolling mean without center=True: the window of index i ends at i.
RollingMeanTrailing(values, w) ==
    [i \in 1..Len(values) |->
        IF i - w + 1 >= 1 /\ w > 0 THEN Rat(SumOver(values, i - w + 1, i), w) ELSE NaN]

\* The rolling sum in place of the rolling mean.
RollingSum(values, w) ==
    [i \in 1..Len(values) |->
        LET lo == i + (w - 1) \div 2 - w + 1
            hi == i + (w - 1) \div 2
        IN  IF lo >= 1 /\ hi <= Len(values) /\ w > 0
              THEN RInt(SumOver(values, lo, hi)) ELSE NaN]

\* Series.rolling(window=w, center=True).mean(), min_periods = w: the window
\* of index i is [i + offset - w + 1, i + offset], offset = (w - 1) // 2,
\* clipped to the series; fewer than w observations give NaN.
RollingMean(values, w) ==
    LET n == Len(values)
        offset == (w - 1) \div 2
    IN  [i \in 1..n |->
            LET hi == IF i + offset > n THEN n ELSE i + offset
                lo == IF i + offset - w + 1 < 1 THEN 1 ELSE i + offset - w + 1
                nobs == hi - lo + 1
            IN  IF nobs >= w /\ nobs > 0 THEN Rat(SumOver(values, lo, hi), nobs) ELSE NaN]

RelativeTimes(rows) == [i \in DOMAIN rows |-> rows[i].relative_time]

Smoothed(rows, ys) == [x |-> RelativeTimes(rows), y |-> ys, buckets |-> << >>]

SmoothRolling ==
    /\ pc = "smooth"
    /\ tool = "plot_request_times_smooth"
    /\ args.method \in {"rolling", "both"}
    /\ smooth' = Smoothed(data, RollingMean(MetricValues(data), args.window_size))
    /\ pc' = "render"
    /\ UNCHANGED <<tool, file, args, df, data, cdf, stats, image, printed, outcome>>

\* resample(freq): the time axis from the first to the last sample is cut
\* into buckets [k freq, (k + 1) freq), aligned to the start of the day;
\* every bucket in that range is a row, with the mean, the variance (std
\* squared, ddof = 1) and the count of its samples; `rows` are the positions
\* of the samples it aggregates.
Bucket(rows, freq, k, start_time) ==
    LET members == {i \in DOMAIN rows : rows[i].timestamp \div freq = k}
        count == Cardinality(members)
        vals == SetToSeq(members)
        sum == SeqSum([j \in DOMAIN vals |-> rows[vals[j]].metric_value])
        sumsq == SeqSum([j \in DOMAIN vals |->
                            rows[vals[j]].metric_value * rows[vals[j]].metric_value])
    IN  [timestamp |-> k * freq,
         relative_time |-> Seconds(k * freq - start_time),
         mean |-> Rat(sum, count),
         var |-> Rat(count * sumsq - sum * sum, count * (count - 1)),
         count |-> count,
         rows |-> members]

Resample(rows, freq) ==
    LET ts == {rows[i].timestamp : i \in DOMAIN rows}
        first == SetMin(ts) \div freq
        last == SetMax(ts) \div freq
    IN  [j \in 1..(last - first + 1) |-> Bucket(rows, freq, first + j - 1, SetMin(ts))]

\* The filter with the threshold one too low.
EnoughSamplesOffByOne(b) == b.count >= MinBucketCount - 1

\* resampled[resampled['count'] >= 3]
EnoughSamples(b) == b.count >= MinBucketCount

SmoothResample ==
    /\ pc = "smooth"
    /\ tool = "plot_request_times_smooth"
    /\ args.method = "resample"
    /\ LET resampled == SelectSeq(Resample(data, args.resample_freq), EnoughSamples)
       IN  smooth' = [x |-> [j \in DOMAIN resampled |-> resampled[j].relative_time],
                      y |-> [j \in DOMAIN resampled |-> resampled[j].mean],
                      buckets |-> resampled]
    /\ pc' = "render"
    /\ UNCHANGED <<tool, file, args, df, data, cdf, stats, image, printed, outcome>>

\* Savitzky-Golay, degree 3, mode 'interp': each output is the value of the
\* least-squares cubic fitted to a window of wl consecutive samples; the
\* window is centred on the sample, except that the first and the last
\* wl // 2 outputs are read off the cubic of the first and the last window.
\* The fit is written with the Gram polynomials of the positions -m..m (the
\* cubic one divided by 6, which divides all its values).
Gram(k, m, x) ==
    CASE k = 0 -> 1
      [] k = 1 -> x
      [] k = 2 -> 3 * x * x - m * (m + 1)
      [] OTHER -> (5 * x * x * x - (3 * m * m + 3 * m - 1) * x) \div 6

GramNorm(k, m) == SeqSum([j \in 1..(2 * m + 1) |-> Gram(k, m, j - m - 1) * Gram(k, m, j - m - 1)])

\* The inner product of Gram polynomial k with the window centred on c.
GramSum(values, k, m, c) ==
    SeqSum([j \in 1..(2 * m + 1) |-> Gram(k, m, j - m - 1) * values[c + j - m - 1]])

\* The value at position t of the cubic fitted to the window centred on c.
FitAt(values, m, c, t) ==
    LET term(k) == Rat(Gram(k, m, t) * GramSum(values, k, m, c), GramNorm(k, m))
    IN  RAdd(RAdd(term(0), term(1)), RAdd(term(2), term(PolyOrder)))

SavgolFilter(values, wl) ==
    LET n == Len(values)
        m == wl \div 2
    IN  Tuple([i \in 1..n |->
                  LET c == IF i < m + 1 THEN m + 1 ELSE IF i > n - m THEN n - m ELSE i
                  IN  FitAt(values, m, c, i - c)])

\* window_length=window_size if window_size % 2 == 1 else window_size + 1
WindowLength(w) == IF w % 2 = 1 THEN w ELSE w + 1

\* savgol_filter raises ValueError unless polyorder < window_length <= n.
SavgolAccepts(n, wl) == PolyOrder < wl /\ wl <= n

\* len(http_duration) > window_size
UsesFilter(n, w) == n > w

\* min(10, len(http_duration)//2)
ReducedWindow(n) == IF n \div 2 < FallbackWindow THEN n \div 2 ELSE FallbackWindow

SmoothSavgol ==
    /\ pc = "smooth"
    /\ tool = "plot_request_times_smooth"
    /\ args.method = "savgol"
    /\ LET values == MetricValues(data)
           n == Len(values)
           wl == WindowLength(args.window_size)
       IN  IF UsesFilter(n, args.window_size)
             THEN IF SavgolAccepts(n, wl)
                    THEN /\ smooth' = Smoothed(data, SavgolFilter(values, wl))
                         /\ pc' = "render"
                         /\ UNCHANGED <<printed, outcome>>
                    ELSE /\ Raised
                         /\ smooth' = smooth
             ELSE /\ smooth' = Smoothed(data, RollingMean(values, ReducedWindow(n)))
                  /\ pc' = "render"
                  /\ UNCHANGED <<printed, outcome>>
    /\ UNCHANGED <<tool, file, args, df, data, cdf, stats, image>>

(***************************************************************************)
(* RPS CDF smoothing (plot_rps_cdf_smooth).                                *)
(***************************************************************************)
\* np.linspace(a, b, num): num evenly spaced values, both ends included.
Linspace(a, b, num) ==
    [j \in 1..num |->
        IF num = 1 THEN a
        ELSE RAdd(a, RMul(RSub(b, a), Rat(j - 1, num - 1)))]

\* Gauss-Jordan elimination on the augmented matrix M of n rows, from
\* column c on.
RECURSIVE Eliminate(_, _, _)
Eliminate(M, c, n) ==
    IF c > n THEN M
    ELSE LET p == SetMin({r \in c..n : M[r][c][1] # 0})
             S == [M EXCEPT ![c] = M[p], ![p] = M[c]]
             pivot == Tuple([k \in 1..(n + 1) |-> RDiv(S[c][k], S[c][c])])
             R == [r \in 1..n |->
                     IF r = c THEN pivot
                     ELSE Tuple([k \in 1..(n + 1) |->
                                    RSub(S[r][k], RMul(S[r][c], pivot[k]))])]
         IN  Eliminate(Tuple(R), c + 1, n)

\* interp1d(x, y, kind='cubic'): the cubic spline through the points with
\* the not-a-knot end conditions, given by its second derivatives at the
\* points.  Row i of the system: the continuity of the first derivative at
\* an inner point; rows 1 and n: the continuity of the third derivative at
\* the second and at the last but one point.
SplineSystem(x, y) ==
    LET n == Len(x)
        h(i) == RSub(x[i + 1], x[i])
        slope(i) == RDiv(RSub(y[i + 1], y[i]), h(i))
        zero == <<0, 1>>
    IN  [i \in 1..n |->
            [k \in 1..(n + 1) |->
                CASE i = 1 ->
                        (CASE k = 1 -> h(2)
                           [] k = 2 -> RNeg(RAdd(h(1), h(2)))
                           [] k = 3 -> h(1)
                           [] OTHER -> zero)
                  [] i = n ->
                        (CASE k = n - 2 -> h(n - 1)
                           [] k = n - 1 -> RNeg(RAdd(h(n - 2), h(n - 1)))
                           [] k = n -> h(n - 2)
                           [] OTHER -> zero)
                  [] OTHER ->
                        (CASE k = i - 1 -> h(i - 1)
                           [] k = i -> RMul(RInt(2), RAdd(h(i - 1), h(i)))
                           [] k = i + 1 -> h(i)
                           [] k = n + 1 -> RMul(RInt(6), RSub(slope(i), slope(i - 1)))
                           [] OTHER -> zero)]]

SecondDerivatives(x, y) ==
    LET n == Len(x)
        M == Eliminate(SplineSystem(x, y), 1, n)
    IN  [i \in 1..n |-> M[i][n + 1]]

\* The spline at t, x[1] <= t <= x[n].
SplineAt(x, y, m, t) ==
    LET n == Len(x)
        below == {k \in 1..(n - 1) : RLe(x[k], t)}
        i == IF below = {} THEN 1 ELSE SetMax(below)
        h == RSub(x[i + 1], x[i])
        a == RSub(x[i + 1], t)
        b == RSub(t, x[i])
        h6 == RDiv(h, RInt(6))
        cube(v) == RMul(v, RMul(v, v))
    IN  RAdd(RAdd(RMul(m[i], RDiv(cube(a), RMul(RInt(6), h))),
                  RMul(m[i + 1], RDiv(cube(b), RMul(RInt(6), h)))),
             RAdd(RMul(RSub(RDiv(y[i], h), RMul(m[i], h6)), a),
                  RMul(RSub(RDiv(y[i + 1], h), RMul(m[i + 1], h6)), b)))

\* f = interp1d(..., bounds_error=False, fill_value=(0, 1)); f(t)
Interp1d(x, y, m, t) ==
    IF RLt(t, x[1]) THEN <<0, 1>>
    ELSE IF RLt(x[Len(x)], t) THEN <<1, 1>>
    ELSE SplineAt(x, y, m, t)

Rationals(ints) == [i \in DOMAIN ints |-> RInt(ints[i])]

\* The cubic fit reserved to more than 5 unique counts.
FitsCubicFromSix(unique_rps) == Len(unique_rps) > MinUniqueForCubic + 1

\* len(unique_rps) > 4
FitsCubic(unique_rps) == Len(unique_rps) > MinUniqueForCubic

InterpolatedCurve(c, num_points) ==
    IF FitsCubic(c.unique_rps)
      THEN LET x == Rationals(c.unique_rps)
               m == SecondDerivatives(x, c.unique_cumulative)
               smooth_x == Linspace(x[1], x[Len(x)], num_points)
               smooth_y == [j \in DOMAIN smooth_x |->
                               Interp1d(x, c.unique_cumulative, m, smooth_x[j])]
               mask == SetToSeq({j \in DOMAIN smooth_y : ~IsNaN(smooth_y[j])})
           IN  [x |-> [j \in DOMAIN mask |-> smooth_x[mask[j]]],
                y |-> [j \in DOMAIN mask |-> smooth_y[mask[j]]],
                buckets |-> << >>]
      ELSE [x |-> Rationals(c.unique_rps), y |-> c.unique_cumulative, buckets |-> << >>]

SmoothInterpolate ==
    /\ pc = "smooth"
    /\ tool = "plot_rps_cdf_smooth"
    /\ args.method \in {"interpolate", "both"}
    /\ smooth' = InterpolatedCurve(cdf, args.num_points)
    /\ pc' = "render"
    /\ UNCHANGED <<tool, file, args, df, data, cdf, stats, image, printed, outcome>>

\* gaussian_filter1d(cumulative, sigma): the kernel is exp(-t^2 / 2 sigma^2),
\* not a rational; each output is kept as the term it is computed from.
GaussianFilter(ys, sigma) ==
    [i \in DOMAIN ys |-> [filter |-> "gaussian_filter1d", sigma |-> sigma, at |-> i]]

\* sigma = smoothing_factor * len(sorted_rps) / 100
Sigma(factor, n) == RDiv(RMul(factor, RInt(n)), RInt(100))

SmoothGaussian ==
    /\ pc = "smooth"
    /\ tool = "plot_rps_cdf_smooth"
    /\ args.method = "gaussian"
    /\ smooth' = [x |-> Rationals(cdf.sorted_rps),
                  y |-> GaussianFilter(cdf.cumulative,
                                       Sigma(args.smoothing_factor, Len(cdf.sorted_rps))),
                  buckets |-> << >>]
    /\ pc' = "render"
    /\ UNCHANGED <<tool, file, args, df, data, cdf, stats, image, printed, outcome>>

\* The number of bins with the product rounded to the nearest integer.
NumBinsRounded(n, factor) ==
    LET k == RTrunc(RAdd(RMul(RInt(n), factor), <<1, 2>>))
    IN  IF k > MinBins THEN k ELSE MinBins

\* max(20, int(len(sorted_rps) * smoothing_factor))
NumBins(n, factor) ==
    LET k == RTrunc(RMul(RInt(n), factor)) IN IF k > MinBins THEN k ELSE MinBins

\* (bin_edges[:-1] + bin_edges[1:]) / 2
BinCenters(lo, hi, num_bins) ==
    LET bin_edges == Linspace(lo, hi, num_bins + 1)
    IN  [j \in 1..num_bins |-> RDiv(RAdd(bin_edges[j], bin_edges[j + 1]), RInt(2))]

\* np.mean(sorted_rps <= edge)
FractionAtMost(sorted, edge) ==
    Rat(Cardinality({i \in DOMAIN sorted : RLe(RInt(sorted[i]), edge)}), Len(sorted))

BinnedCurve(sorted_rps, factor) ==
    LET num_bins == NumBins(Len(sorted_rps), factor)
        bin_centers == BinCenters(RInt(sorted_rps[1]), RInt(sorted_rps[Len(sorted_rps)]),
                                  num_bins)
    IN  [x |-> bin_centers,
         y |-> [j \in DOMAIN bin_centers |-> FractionAtMost(sorted_rps, bin_centers[j])],
         buckets |-> << >>]

SmoothBinned ==
    /\ pc = "smooth"
    /\ tool = "plot_rps_cdf_smooth"
    /\ args.method = "binned"
    /\ smooth' = BinnedCurve(cdf.sorted_rps, args.smoothing_factor)
    /\ pc' = "render"
    /\ UNCHANGED <<tool, file, args, df, data, cdf, stats, image, printed, outcome>>

(***************************************************************************)
(* Rendering: the figure is saved, the summary printed.                    *)
(***************************************************************************)
\* The mean of the defined values of a series of rationals.
RECURSIVE RSum(_, _)
RSum(ys, i) == IF i > Len(ys) THEN <<0, 1>>
               ELSE RAdd(IF IsNaN(ys[i]) THEN <<0, 1>> ELSE ys[i], RSum(ys, i + 1))

DefinedMean(ys) ==
    RDiv(RSum(ys, 1), RInt(Cardinality({i \in DOMAIN ys : ~IsNaN(ys[i])})))

Figure(x, y, lines) == [written |-> TRUE, x |-> x, y |-> y, lines |-> lines]

\* Rendered with the average taken from the smoothed series.
RenderedFromSmoothed(t) ==
    LET summary == IF args.method \in {"rolling", "savgol", "both"}
                     THEN [stats EXCEPT !.mean = DefinedMean(smooth.y)]
                     ELSE stats
    IN  [figure |-> [written |-> TRUE, x |-> smooth.x, y |-> smooth.y, lines |-> summary],
         report |-> <<[msg |-> "Statistics", stats |-> summary], Msg("Plot saved")>>]

\* What the figure shows and what the closing prints report.
Rendered(t) ==
    CASE t = "plot_request_times" ->
            [figure |-> Figure(RelativeTimes(data), Rationals(MetricValues(data)), stats),
             report |-> <<[msg |-> "Statistics",
                           stats |-> [stats EXCEPT !.mean = Mean(MetricValues(data)),
                                                   !.max = MaxOf(MetricValues(data))]],
                          Msg("Plot saved")>>]
      [] t = "plot_rps_cdf" ->
            [figure |-> Figure(Rationals(cdf.sorted_rps), cdf.cumulative, NoStats),
             report |-> <<Msg("Plot saved")>>]
      [] OTHER ->
            [figure |-> Figure(smooth.x, smooth.y, stats),
             report |-> <<[msg |-> "Statistics", stats |-> stats], Msg("Plot saved")>>]

Render ==
    /\ pc = "render"
    /\ image' = Rendered(tool).figure
    /\ printed' = printed \o Rendered(tool).report
    /\ outcome' = "complete"
    /\ pc' = "done"
    /\ UNCHANGED <<tool, file, args, df, data, cdf, stats, smooth>>

Next ==
    \/ Main \/ Load \/ Filter \/ PrepareLatency \/ PrepareRps \/ Stats
    \/ SmoothRolling \/ SmoothResample \/ SmoothSavgol
    \/ SmoothInterpolate \/ SmoothGaussian \/ SmoothBinned
    \/ Render

Spec == Init /\ [][Next]_vars

(***************************************************************************)
(* Properties.                                                             *)
(***************************************************************************)
Finished == pc = "done"

Loaded == file.exists /\ file.readable

\* The rows of the input file that carry the tool's metric.
TargetRows == Matching(file.rows, TargetMetric(tool))

Said(m) == \E i \in DOMAIN printed : printed[i].msg = m

AfterStats == pc \in {"smooth", "render", "done"} /\ stats # NoStats

\* The smoothing step of a smoothing tool has run and did not raise.
SmoothingDone ==
    /\ tool \in {"plot_request_times_smooth", "plot_rps_cdf_smooth"}
    /\ pc = "render" \/ (pc = "done" /\ outcome = "complete")

\* C1: in every tool, when no row of the loaded table carries the target
\* metric, the run prints a diagnostic, computes no statistics and no
\* smoothed series, and writes no image.
C1_EmptyStopsEveryTool ==
    (Finished /\ Loaded /\ TargetRows = << >>) =>
        /\ Said("No data found")
        /\ stats = NoStats
        /\ smooth = NoSmooth
        /\ ~image.written

\* C2: every run ends either complete, with the image written, or with a
\* failure that was reported; nothing escapes main() unreported, and a
\* reported failure has written no image.
C2_CompleteOrReported ==
    Finished =>
        \/ outcome = "complete" /\ image.written
        \/ outcome \in {"reported", "empty"} /\ ~image.written /\ printed # << >>

Ordered(s) ==
    /\ IsNaN(s.p50) \/ RLe(s.p50, s.p95)
    /\ RLe(s.p95, s.p99)
    /\ IsNaN(s.max) \/ RLe(s.p99, s.max)

\* C3: whatever the order of the samples, the summary that is computed, and
\* the one that is printed, satisfy p50 <= p95 <= p99 <= max (each tool for
\* the percentiles it computes).
C3_PercentilesOrdered ==
    /\ stats # NoStats => Ordered(stats)
    /\ \A i \in DOMAIN printed : printed[i].stats # NoStats => Ordered(printed[i].stats)

\* C3 happens: a summary of samples that arrive out of order, with three
\* different values for p95, p99 and max.
C3_Witness ==
    /\ tool = "plot_request_times_smooth"
    /\ pc = "smooth"
    /\ MetricValues(data) # SortAsc(MetricValues(data))
    /\ RLt(stats.p95, stats.p99)
    /\ RLt(stats.p99, stats.max)

Within1(a, n) == RLe(RSub(a, RInt(n)), <<1, 1>>) /\ RLe(RSub(RInt(n), a), <<1, 1>>)

\* The step scenario reached the statistics: as the durations of the latency
\* tool, or as the per-second counts of the RPS tool.
StepSummarised ==
    /\ AfterStats
    /\ \/ tool = "plot_request_times_smooth" /\ MetricValues(data) = StepValues
       \/ tool = "plot_rps_cdf_smooth" /\ cdf.sorted_rps = StepValues

\* C4 as stated: for 50 values of 10 followed by 50 values of 20 the summary
\* has P50 about 10, P95 about 20, P99 about 20 and mean 15.
C4_StepScenarioAsStated ==
    StepSummarised =>
        /\ tool = "plot_rps_cdf_smooth" => Within1(stats.p50, 10)
        /\ Within1(stats.p95, 20)
        /\ Within1(stats.p99, 20)
        /\ stats.mean = RInt(15)

\* C4 amended: for that sample set P50 is exactly 15 (rank 49.5 lies midway
\* between the 50th value, 10, and the 51st, 20), P95 and P99 are exactly 20
\* and the mean is exactly 15.
C4_StepScenario ==
    StepSummarised =>
        /\ tool = "plot_rps_cdf_smooth" => stats.p50 = RInt(15)
        /\ stats.p95 = RInt(20)
        /\ stats.p99 = RInt(20)
        /\ stats.mean = RInt(15)
        /\ stats.max = RInt(20)

\* C4 happens: the RPS tool has summarised the step scenario, P50 included.
C4_Witness ==
    /\ StepSummarised
    /\ tool = "plot_rps_cdf_smooth"
    /\ ~IsNaN(stats.p50)
    /\ Finished

\* The summary of the raw samples of the input file: a function of the file
\* and of nothing else.
RawSummary ==
    IF tool = "plot_request_times_smooth"
      THEN LatencyStats(MetricValues(TargetRows))
      ELSE RpsStats(SortAsc([k \in DOMAIN GroupSize(TargetRows) |-> GroupSize(TargetRows)[k][2]]))

\* C5: the summary is computed from the raw samples before any smoothing
\* runs and no smoothing changes it: before and after the smoothing step,
\* on the figure and in the printed report, it is the summary of the raw
\* samples of the file, whatever the method and its parameters.
C5_SummaryOfRawSamples ==
    tool \in {"plot_request_times_smooth", "plot_rps_cdf_smooth"} =>
        /\ pc \in {"smooth", "render"} => stats = RawSummary
        /\ image.written => image.lines = RawSummary
        /\ \A i \in DOMAIN printed :
              printed[i].msg = "Statistics" => printed[i].stats = RawSummary

\* C5 happens: a figure whose smoothed series differs from the raw samples
\* carries the summary of the raw samples.
C5_Witness ==
    /\ tool = "plot_request_times_smooth"
    /\ args.method = "rolling"
    /\ image.written
    /\ Said("Statistics")
    /\ \E i \in DOMAIN image.y :
          ~IsNaN(image.y[i]) /\ image.y[i] # RInt(data[i].metric_value)

RollingRan ==
    /\ SmoothingDone
    /\ tool = "plot_request_times_smooth"
    /\ args.method \in {"rolling", "both"}

\* The w indices of the window centred on index i.
CenteredWindow(i, w) == (i - w \div 2)..(i + (w - 1) \div 2)

DefinedAt(ys) == {i \in DOMAIN ys : ~IsNaN(ys[i])}

\* C6: rolling average with window w over n >= w samples: exactly
\* n - (w - 1) outputs are defined, and each lies between the least and the
\* greatest of the w samples of its centred index window.
C6_RollingAverage ==
    (RollingRan /\ Len(data) >= args.window_size) =>
        LET v == MetricValues(data)
            w == args.window_size
        IN  /\ Cardinality(DefinedAt(smooth.y)) = Len(v) - (w - 1)
            /\ \A i \in DefinedAt(smooth.y) :
                  /\ CenteredWindow(i, w) \subseteq DOMAIN v
                  /\ RLe(RInt(SetMin({v[k] : k \in CenteredWindow(i, w)})), smooth.y[i])
                  /\ RLe(smooth.y[i], RInt(SetMax({v[k] : k \in CenteredWindow(i, w)})))

\* C6 happens: a window of at least 3 over a longer series, an output
\* strictly inside the range of its window, and an undefined edge.
C6_Witness ==
    /\ RollingRan
    /\ args.window_size >= 3
    /\ Len(data) > args.window_size
    /\ DefinedAt(smooth.y) # DOMAIN smooth.y
    /\ \E i \in DefinedAt(smooth.y) :
          LET v == MetricValues(data)
          IN  /\ RLt(RInt(SetMin({v[k] : k \in CenteredWindow(i, args.window_size)})),
                     smooth.y[i])
              /\ RLt(smooth.y[i],
                     RInt(SetMax({v[k] : k \in CenteredWindow(i, args.window_size)})))

ResampleRan ==
    /\ SmoothingDone
    /\ tool = "plot_request_times_smooth"
    /\ args.method = "resample"

RetainedCount == SeqSum([j \in DOMAIN smooth.buckets |-> smooth.buckets[j].count])

\* C7: bucketed resample, any bucket width: every bucket of the output
\* counts at least 3 samples, no sample is counted in two buckets, and the
\* counts of the output add up to at most the number of samples.
C7_ResampleBuckets ==
    ResampleRan =>
        LET B == smooth.buckets
        IN  /\ \A j \in DOMAIN B :
                  /\ B[j].count >= 3
                  /\ B[j].rows \subseteq DOMAIN data
                  /\ B[j].count = Cardinality(B[j].rows)
            /\ \A j, k \in DOMAIN B : j # k => B[j].rows \cap B[k].rows = {}
            /\ RetainedCount <= Len(data)

\* C7 happens: a bucket is kept while a sample elsewhere is dropped with
\* its bucket.
C7_Witness ==
    /\ ResampleRan
    /\ smooth.buckets # << >>
    /\ RetainedCount < Len(data)

\* C8: binned CDF of any non-empty count series: the y of the rightmost bin
\* centre is 1.
C8_BinnedEndsAtOne ==
    (SmoothingDone /\ tool = "plot_rps_cdf_smooth" /\ args.method = "binned") =>
        smooth.y[Len(smooth.y)] = <<1, 1>>

NonDecreasing(ys) == \A j \in 1..(Len(ys) - 1) : RLe(ys[j], ys[j + 1])

\* C9: interpolate on a count series with at least 5 distinct counts: the
\* output curve never decreases from one output point to the next.
C9_InterpolatedMonotone ==
    (/\ SmoothingDone
     /\ tool = "plot_rps_cdf_smooth"
     /\ args.method = "interpolate"
     /\ Len(cdf.unique_rps) >= 5) => NonDecreasing(smooth.y)

\* C10: the raw CDF is deduplicated to one point per distinct count x, with
\* the fraction (number of counts <= x) / n, the largest among the raw
\* points of that x.
C10_DedupKeepsMaximalFraction ==
    (tool = "plot_rps_cdf_smooth" /\ cdf # NoCdf) =>
        LET srt == cdf.sorted_rps
        IN  /\ Range(cdf.unique_rps) = Range(srt)
            /\ \A k \in 1..(Len(cdf.unique_rps) - 1) : cdf.unique_rps[k] < cdf.unique_rps[k + 1]
            /\ \A k \in DOMAIN cdf.unique_rps :
                  cdf.unique_cumulative[k] =
                      Rat(Cardinality({i \in DOMAIN srt : srt[i] <= cdf.unique_rps[k]}), Len(srt))

\* The smoothing step of the latency tool was entered with at least one
\* sample and has ended, by a result or by an exception.
LatencySmoothingEnded ==
    /\ tool = "plot_request_times_smooth"
    /\ Len(data) >= 1
    /\ pc \in {"render", "done"}

\* C11: rolling average and Savitzky-Golay on n >= 1 samples with a window
\* w >= n: the method does not raise and its output is not undefined
\* everywhere (it is computed with a smaller window).
C11_ShortInputDegrades ==
    (/\ LatencySmoothingEnded
     /\ args.method \in {"rolling", "savgol"}
     /\ Len(data) <= args.window_size) =>
        /\ outcome # "reported"
        /\ DefinedAt(smooth.y) # {}

\* The per-second counts of an RPS tool have been computed.
RpsPrepared ==
    /\ tool \in RpsTools
    /\ pc \in {"stats", "smooth", "render"} \/ (pc = "done" /\ outcome = "complete")

\* The events, among ev, that fall in the one-second bucket [s, s + 1).
EventsInSecond(ev, s) ==
    {i \in DOMAIN ev :
        s * TicksPerSec <= ev[i].timestamp /\ ev[i].timestamp < (s + 1) * TicksPerSec}

\* C12: the per-second count series has exactly one entry for each
\* one-second bucket [s, s + 1) holding at least one event and none for any
\* other second; every count is at least 1 and is the number of events of
\* its bucket, and the counts add up to the number of events.
C12_PerSecondCounts ==
    RpsPrepared =>
        LET ev == Tuple(TargetRows)
        IN  /\ \A k \in DOMAIN cdf.rps :
                  /\ cdf.rps[k][2] >= 1
                  /\ cdf.rps[k][2] = Cardinality(EventsInSecond(ev, cdf.rps[k][1]))
            /\ \A j, k \in DOMAIN cdf.rps : j # k => cdf.rps[j][1] # cdf.rps[k][1]
            /\ \A i \in DOMAIN ev :
                  \E k \in DOMAIN cdf.rps :
                      /\ cdf.rps[k][1] * TicksPerSec <= ev[i].timestamp
                      /\ ev[i].timestamp < (cdf.rps[k][1] + 1) * TicksPerSec
            /\ SeqSum([k \in DOMAIN cdf.rps |-> cdf.rps[k][2]]) = Len(ev)

\* C12 happens: events in two seconds with an empty second between them,
\* and a second holding several events.
C12_Witness ==
    /\ RpsPrepared
    /\ \E j, k \in DOMAIN cdf.rps :
          /\ cdf.rps[j][1] + 1 < cdf.rps[k][1]
          /\ \E s \in (cdf.rps[j][1] + 1)..(cdf.rps[k][1] - 1) :
                EventsInSecond(TargetRows, s) = {}
          /\ cdf.rps[j][2] >= 2

BinnedRan ==
    /\ SmoothingDone
    /\ tool = "plot_rps_cdf_smooth"
    /\ args.method = "binned"

\* n * p for a count series of length n and the factor f = p / q.
ScaledLength == Len(cdf.sorted_rps) * args.smoothing_factor[1]

Larger(a, b) == IF a > b THEN a ELSE b

\* The centre of bin j of `bins` equal-width bins over [lo, hi].
CentreOfBin(lo, hi, bins, j) ==
    RAdd(RInt(lo), Rat((2 * j - 1) * (hi - lo), 2 * bins))

\* C13 as stated: the binned method uses max(20, round(n * f)) equal-width
\* bins over [min(counts), max(counts)] and returns one point per bin.
C13_BinsAsStated ==
    BinnedRan =>
        LET q == args.smoothing_factor[2]
            rounded == (2 * ScaledLength + q) \div (2 * q)
        IN  /\ Len(smooth.x) = Larger(20, rounded)
            /\ Len(smooth.y) = Larger(20, rounded)

\* C13 amended: the number of bins is max(20, floor(n * f)), the product
\* truncated and not rounded; the output has exactly that many points, the
\* x of point j being the centre of bin j of the equal-width bins over
\* [min(counts), max(counts)].
C13_BinCount ==
    BinnedRan =>
        LET bins == Larger(20, ScaledLength \div args.smoothing_factor[2])
            lo == cdf.sorted_rps[1]
            hi == cdf.sorted_rps[Len(cdf.sorted_rps)]
        IN  /\ Len(smooth.x) = bins
            /\ Len(smooth.y) = bins
            /\ \A j \in 1..bins : smooth.x[j] = CentreOfBin(lo, hi, bins, j)

\* C13 happens: a series with n * f = 20.9 is binned into 20 bins.
C13_Witness ==
    /\ BinnedRan
    /\ 10 * ScaledLength = 209 * args.smoothing_factor[2]
    /\ Len(smooth.x) = 20
    /\ cdf.sorted_rps[1] < cdf.sorted_rps[Len(cdf.sorted_rps)]

SavgolEnded == LatencySmoothingEnded /\ args.method = "savgol"

\* The width the filter is given: w when w is odd, w + 1 when w is even.
OddWidth(w) == IF w % 2 = 1 THEN w ELSE w + 1

\* C14: Savitzky-Golay with requested window w on n samples: whenever
\* n >= w the filter is applied, with width w (w odd) or w + 1 (w even), and
\* yields one defined output per input; the reduced-window rolling average
\* is used only when n < w.
C14_SavgolWindow ==
    SavgolEnded =>
        LET values == MetricValues(data)
            n == Len(values)
            w == args.window_size
        IN  IF n >= w
              THEN /\ outcome # "reported"
                   /\ Len(smooth.y) = n
                   /\ DefinedAt(smooth.y) = DOMAIN smooth.y
                   /\ OddWidth(w) <= n
                   /\ smooth.y = SavgolFilter(values, OddWidth(w))
              ELSE /\ outcome # "reported"
                   /\ smooth.y = RollingMean(values, IF n \div 2 < 10 THEN n \div 2 ELSE 10)

InterpolateRan ==
    /\ SmoothingDone
    /\ tool = "plot_rps_cdf_smooth"
    /\ args.method \in {"interpolate", "both"}

\* The number of distinct per-second counts.
UniqueCounts == Cardinality(Range(cdf.sorted_rps))

C15_WitnessPassthrough ==
    /\ InterpolateRan
    /\ UniqueCounts \in 2..4
    /\ Len(cdf.sorted_rps) > UniqueCounts
    /\ Len(smooth.x) = UniqueCounts

\* The latency tool, run with default parameters on 100 samples of one and
\* the same value, has smoothed them.
ConstantSmoothed ==
    /\ SmoothingDone
    /\ tool = "plot_request_times_smooth"
    /\ args.window_size = DefaultWindow
    /\ args.resample_freq = TicksPerSec
    /\ Len(data) = 100
    /\ \A i \in DOMAIN data : data[i].metric_value = data[1].metric_value

\* C16: 100 identical values v, each latency method (rolling, resample,
\* savgol, both) with default parameters: every value of the output series
\* equals v.  The rolling average (rolling, both) has 51 values, the filter
\* 100, the resample one per retained bucket.
C16_ConstantInConstantOut ==
    ConstantSmoothed =>
        /\ \A i \in DefinedAt(smooth.y) : smooth.y[i] = RInt(data[1].metric_value)
        /\ args.method \in {"rolling", "both"} => Cardinality(DefinedAt(smooth.y)) = 51
        /\ args.method = "savgol" => DefinedAt(smooth.y) = 1..100
        /\ args.method = "resample" => DefinedAt(smooth.y) = DOMAIN smooth.y

\* C16 happens: the filter of width 51 has run over 100 samples of a value
\* other than 1.
C16_Witness ==
    /\ ConstantSmoothed
    /\ args.method = "savgol"
    /\ data[1].metric_value > 1
    /\ Len(smooth.y) = 100

\* C16 happens for the buckets as well: 25 one-second buckets of 4 samples.
C16_WitnessResample ==
    /\ ConstantSmoothed
    /\ args.method = "resample"
    /\ Len(smooth.y) >= 25
=============================================================================
